---- MODULE Spec2Model ----
(***************************************************************************)
(* EduConnect User service: the "users" document collection, the JWT      *)
(* decorator that guards every route, the profile / subscription handlers *)
(* of the users blueprint, the avatar upload through the Media client,    *)
(* the response cache decorators and the pattern-based invalidation.      *)
(*                                                                         *)
(* Specifications: Spec (the users blueprint), SpecAuth (the decorator    *)
(* under every kind of header), SpecMedia (multipart avatar update),      *)
(* SpecCache (cached_with_user), SpecPublic (cached_public and            *)
(* invalidate_series_cache), SpecConc (concurrent add / remove),          *)
(* SpecClient (the Media client's operations), SpecSubs (subscriptions    *)
(* read under both spellings), SpecProv (concurrent GET /profile).        *)
(*                                                                         *)
(* A dict key that may be missing is an option value: <<>> when the key   *)
(* is absent and <<v>> when it is present with value v.  Python's None is *)
(* the string "None".  A missing array field of a stored document reads    *)
(* as the empty array at every use in the code (.get(k, []), $pull,       *)
(* $addToSet, the equality filter), so it is stored as <<>>.              *)
(***************************************************************************)
EXTENDS Integers, Sequences, FiniteSets, TLC

VARIABLES users, now, last, nreq, cache, reqs, media

vars == <<users, now, last, nreq, cache, reqs, media>>

(* ------------------------------ bounds --------------------------------- *)
MaxTime == 1
MaxReq == 2
MaxAuthReq == 1
NConc == 3

UserIds == {"u1", "u2"}
SerieIds == {"s1", "s2"}
Emails == {"a@x", "b@x"}
Roles == {"student", "instructor", "admin"}

None == "None"
NoTime == 0 - 1

(* ----------------------------- option values --------------------------- *)
Has(o) == o # <<>>
Get(o, default) == IF o # <<>> THEN o[1] ELSE default
Truthy(v) == v # None /\ v # ""

(* --------------------------- array operators --------------------------- *)
Range(arr) == {arr[i] : i \in 1..Len(arr)}

Count(arr, x) == Cardinality({i \in 1..Len(arr) : arr[i] = x})

NoDup(arr) == \A i, j \in 1..Len(arr) : arr[i] = arr[j] => i = j

\* $addToSet: appends the value unless the array already holds it
AddToSet(arr, x) == IF x \in Range(arr) THEN arr ELSE Append(arr, x)

\* $pull: removes every occurrence of the value
Pull(arr, x) == SelectSeq(arr, LAMBDA y : y # x)

(* ------------------------- the users collection ------------------------ *)
RecFields == {"email", "name", "role", "avatar", "serie_subcribe",
              "serie_subscribe", "createdAt", "updatedAt", "lastLogin"}

\* keys of a request body that the model distinguishes
BodyKeys == {"userId", "email", "name", "role", "avatar", "serie_subcribe",
             "serie_subscribe", "createdAt", "updatedAt", "serie_id"}

EmptyBody == [k \in BodyKeys |-> <<>>]

\* find_by_id: the document or nothing
find_by_id(db, user_id) == IF user_id \in DOMAIN db THEN <<db[user_id]>> ELSE <<>>

find_by_email(db, email) ==
    IF \E u \in DOMAIN db : db[u].email = email
    THEN <<CHOOSE u \in DOMAIN db : db[u].email = email>>
    ELSE <<>>

Put(db, user_id, rec) ==
    [u \in DOMAIN db \cup {user_id} |-> IF u = user_id THEN rec ELSE db[u]]

\* a document that an upsert creates before $set fills it in
BlankUser ==
    [email |-> None, name |-> None, role |-> None, avatar |-> None,
     serie_subcribe |-> <<>>, serie_subscribe |-> <<>>,
     createdAt |-> NoTime, updatedAt |-> NoTime, lastLogin |-> NoTime]

\* MongoUserRepository.update: drop the immutable keys, stamp updatedAt,
\* $set the rest, upsert when no document has the id
SanitizeIdOnly == {"_id", "userId"}
Sanitize == {"_id", "userId", "createdAt"}

update_data_callerstamp(data, t) ==
    [k \in (BodyKeys \ Sanitize) \cup {"updatedAt"} |->
        IF k = "updatedAt" /\ ~Has(data[k]) THEN <<t>> ELSE data[k]]
update_data(data, t) ==
    [k \in (BodyKeys \ Sanitize) \cup {"updatedAt"} |->
        IF k = "updatedAt" THEN <<t>> ELSE data[k]]

SetFields(rec, upd) ==
    [f \in RecFields |-> IF f \in DOMAIN upd /\ Has(upd[f]) THEN upd[f][1] ELSE rec[f]]

repo_update(db, user_id, data, t) ==
    LET base == IF user_id \in DOMAIN db THEN db[user_id] ELSE BlankUser
        rec  == SetFields(base, update_data(data, t))
    IN  [ok |-> TRUE, db |-> Put(db, user_id, rec), rec |-> <<rec>>, err |-> ""]

\* MongoUserRepository.create
NewUser(email, name, t) ==
    [email |-> email, name |-> name, role |-> "student", avatar |-> "",
     serie_subcribe |-> <<>>, serie_subscribe |-> <<>>,
     createdAt |-> t, updatedAt |-> t, lastLogin |-> t]

repo_create(db, data, t) ==
    LET cognito_id == Get(data.userId, None) IN
    IF ~Truthy(cognito_id)
    THEN [ok |-> FALSE, db |-> db, rec |-> <<>>, err |-> "userId is required"]
    ELSE IF cognito_id \in DOMAIN db
    THEN repo_update(db, cognito_id, data, t)
    ELSE IF Get(data.email, None) = None
    THEN [ok |-> FALSE, db |-> db, rec |-> <<>>,
          err |-> "'NoneType' object has no attribute 'split'"]
    ELSE LET rec == NewUser(data.email[1], Get(data.name, None), t)
         IN  [ok |-> TRUE, db |-> Put(db, cognito_id, rec), rec |-> <<rec>>, err |-> ""]

(* --------------------------- JWT decorator ----------------------------- *)
APP_CLIENT_ID == "app"
OtherClient == "other-app"

\* key ids published by the identity provider's key set
JwksKids == {"k1"}

\* A bearer token, by the properties the verification looks at.
IdToken(sub, email, name) ==
    [wellformed |-> TRUE, kid |-> "k1", sig |-> TRUE, expired |-> FALSE,
     aud |-> APP_CLIENT_ID, iss_ok |-> TRUE, token_use |-> "id",
     client_id |-> None, sub |-> sub, email |-> email, name |-> name,
     cognito_username |-> None]

AccessToken(sub, client) ==
    [wellformed |-> TRUE, kid |-> "k1", sig |-> TRUE, expired |-> FALSE,
     aud |-> None, iss_ok |-> TRUE, token_use |-> "access",
     client_id |-> client, sub |-> sub, email |-> None, name |-> None,
     cognito_username |-> None]

NoToken == [IdToken(None, None, None) EXCEPT !.wellformed = FALSE]

Bearer(tok) == [kind |-> "bearer", tok |-> tok]
\* no Authorization header, a non-Bearer scheme, "Bearer " with nothing after
NonBearer == {[kind |-> k, tok |-> NoToken] : k \in {"absent", "basic", "bearer_empty"}}

\* jose jwt.decode(token, key, algorithms, audience, issuer): signature,
\* then exp, then aud (skipped when the claim is missing), then iss
jwt_decode_audfirst(tok) ==
    IF ~tok.sig THEN "Invalid token"
    ELSE IF tok.aud # None /\ tok.aud # APP_CLIENT_ID
         THEN "Invalid claims: Invalid audience"
    ELSE IF tok.expired THEN "Token expired"
    ELSE IF ~tok.iss_ok THEN "Invalid claims: Invalid issuer"
    ELSE "ok"
jwt_decode(tok) ==
    IF ~tok.sig THEN "Invalid token"
    ELSE IF tok.expired THEN "Token expired"
    ELSE IF tok.aud # None /\ tok.aud # APP_CLIENT_ID
         THEN "Invalid claims: Invalid audience"
    ELSE IF ~tok.iss_ok THEN "Invalid claims: Invalid issuer"
    ELSE "ok"

Deny(message) == [ok |-> FALSE, status |-> 401, message |-> message, g |-> <<>>]

\* the request context g after a successful verification
Identity(tok, db) ==
    [user_sub   |-> tok.sub,
     user_email |-> tok.email,
     user_name  |-> IF Truthy(tok.name) THEN tok.name ELSE tok.cognito_username,
     user_role  |-> IF tok.sub \in DOMAIN db /\ db[tok.sub].role # None
                    THEN db[tok.sub].role ELSE "student"]

authenticate_jwt_nokey(hdr, jwksUp, db) ==
    IF hdr.kind # "bearer" THEN Deny("Token is missing")
    ELSE IF ~jwksUp \/ ~hdr.tok.wellformed \/ hdr.tok.kid = None
    THEN Deny("Invalid token")
    ELSE IF hdr.tok.kid \in JwksKids /\ jwt_decode(hdr.tok) # "ok"
    THEN Deny(jwt_decode(hdr.tok))
    ELSE IF hdr.tok.sub = None THEN Deny("Invalid token")
    ELSE [ok |-> TRUE, status |-> 200, message |-> "ok",
          g |-> <<Identity(hdr.tok, db)>>]
authenticate_jwt(hdr, jwksUp, db) ==
    IF hdr.kind # "bearer" THEN Deny("Token is missing")
    ELSE IF ~jwksUp \/ ~hdr.tok.wellformed \/ hdr.tok.kid = None
    THEN Deny("Invalid token")
    ELSE IF hdr.tok.kid \notin JwksKids THEN Deny("Unable to find appropriate key")
    ELSE IF jwt_decode(hdr.tok) # "ok" THEN Deny(jwt_decode(hdr.tok))
    ELSE IF hdr.tok.sub = None THEN Deny("Invalid token")
    ELSE [ok |-> TRUE, status |-> 200, message |-> "ok",
          g |-> <<Identity(hdr.tok, db)>>]

(* ------------------------------ handlers ------------------------------- *)
\* A handler's outcome: the collection afterwards and the response.
Resp(db, status, message, data, count) ==
    [db |-> db, status |-> status, message |-> message, data |-> data, count |-> count]

\* email.split('@')[0]
LocalPart(email) == IF email = "a@x" THEN "a" ELSE IF email = "b@x" THEN "b" ELSE email

\* POST /api/v1/auth/verify
verify_jwt(db, g) ==
    LET user == find_by_id(db, g.user_sub)
        role == IF Has(user) /\ user[1].role # None THEN user[1].role ELSE "student"
    IN  Resp(db, 200, "", <<[user_id |-> g.user_sub, email |-> g.user_email,
                             name |-> g.user_name, role |-> role]>>, 0)

\* POST /profile
create_profile(db, body, t) ==
    LET user_id == Get(body.userId, None) IN
    IF ~Truthy(user_id) THEN Resp(db, 400, "userId is required", <<>>, 0)
    ELSE IF Has(find_by_id(db, user_id))
    THEN Resp(db, 409, "User profile already exists", <<>>, 0)
    ELSE LET r == repo_create(db, body, t) IN
         IF r.ok THEN Resp(r.db, 201, "User profile created successfully", r.rec, 0)
         ELSE Resp(db, 500, r.err, <<>>, 0)

\* GET /profile
get_current_profile(db, g, t) ==
    LET user_id == g.user_sub
        user_data == [EmptyBody EXCEPT !.userId = <<user_id>>,
                                       !.name = <<g.user_name>>,
                                       !.email = <<g.user_email>>]
    IN  IF Has(find_by_id(db, user_id))
        THEN Resp(db, 200, "", find_by_id(db, user_id), 0)
        ELSE LET r == repo_create(db, user_data, t) IN
             IF r.ok THEN Resp(r.db, 201, "User profile created automatically", r.rec, 0)
             ELSE Resp(db, 500, r.err, <<>>, 0)

\* PUT /<user_id> with a JSON body
update_user_profile(db, user_id, body, t) ==
    IF ~Has(find_by_id(db, user_id)) THEN Resp(db, 404, "User not found", <<>>, 0)
    ELSE LET r == repo_update(db, user_id, body, t)
         IN  Resp(r.db, 200, "User updated successfully", r.rec, 0)

(* --------------------------- Media service ----------------------------- *)
\* avatar URLs the Media service hands out for an uploaded thumbnail
ThumbUrls == {"http://media/t1", "http://media/t2"}

\* The Media service's answer to one call: <<v>> is a 2xx JSON answer carrying
\* v (the url of an upload, the success flag of a delete); <<>> is a timeout,
\* a transport failure or a non-2xx status, which _make_request raises.
UploadAnswers == {<<>>} \cup {<<u>> : u \in ThumbUrls}
DeleteAnswers == {<<>>, <<TRUE>>}

\* MediaServiceClient.upload_thumbnail: every failure is caught and gives None
upload_thumbnail(answer) == IF Has(answer) THEN answer[1] ELSE None

\* MediaServiceClient.delete_file: every failure is caught and gives False
delete_file(answer) == IF Has(answer) THEN answer[1] ELSE FALSE

\* the uploaded file part; a part with an empty filename is falsy
AvatarFiles == {"a.png", ""}

\* UserService.update_user with an avatar file: gone is the set of URLs whose
\* file the Media service has deleted for this service
update_user_setsany(db, gone, user_id, data, avatar_file, del, up, t) ==
    LET current_user == find_by_id(db, user_id)
        old == IF Has(current_user) THEN current_user[1].avatar ELSE None
        deleted == avatar_file # "" /\ Truthy(old) /\ delete_file(del)
        avatar_url == upload_thumbnail(up)
        data2 == IF avatar_file # ""
                 THEN [data EXCEPT !.avatar = <<IF avatar_url = None THEN "" ELSE avatar_url>>]
                 ELSE data
        r == repo_update(db, user_id, data2, t)
    IN  [db |-> r.db, rec |-> r.rec,
         media |-> IF avatar_file # ""
                   THEN ((IF deleted THEN gone \cup {old} ELSE gone)
                            \ (IF Truthy(avatar_url) THEN {avatar_url} ELSE {}))
                   ELSE gone]
update_user(db, gone, user_id, data, avatar_file, del, up, t) ==
    LET current_user == find_by_id(db, user_id)
        old == IF Has(current_user) THEN current_user[1].avatar ELSE None
        deleted == avatar_file # "" /\ Truthy(old) /\ delete_file(del)
        avatar_url == upload_thumbnail(up)
        data2 == IF avatar_file # "" /\ Truthy(avatar_url)
                 THEN [data EXCEPT !.avatar = <<avatar_url>>]
                 ELSE data
        r == repo_update(db, user_id, data2, t)
    IN  [db |-> r.db, rec |-> r.rec,
         media |-> IF avatar_file # ""
                   THEN ((IF deleted THEN gone \cup {old} ELSE gone)
                            \ (IF Truthy(avatar_url) THEN {avatar_url} ELSE {}))
                   ELSE gone]

\* PUT /<user_id> with multipart form data that has a file part named avatar
update_user_profile_multipart(db, gone, user_id, form, avatar_file, del, up, t) ==
    IF ~Has(find_by_id(db, user_id))
    THEN [resp |-> Resp(db, 404, "User not found", <<>>, 0), media |-> gone]
    ELSE LET r == update_user(db, gone, user_id, form, avatar_file, del, up, t)
         IN  [resp |-> Resp(r.db, 200, "User updated successfully", r.rec, 0),
              media |-> r.media]

\* UserService.sync_cognito_user
sync_cognito_user_merge(db, user_data, t) ==
    LET cognito_sub == user_data.cognito_sub
        email == user_data.email
        byId == find_by_id(db, cognito_sub)
        found == IF Has(byId) THEN <<cognito_sub>> ELSE find_by_email(db, email)
    IN  IF ~Truthy(cognito_sub) \/ ~Truthy(email)
        THEN [db |-> db, rec |-> <<>>, err |-> "Missing required user info"]
        ELSE IF Has(found)
        THEN LET rec == [db[found[1]] EXCEPT !.lastLogin = t, !.updatedAt = t,
                                             !.name = user_data.name,
                                             !.avatar = user_data.avatar]
             IN  [db |-> Put(db, found[1], rec), rec |-> <<rec>>, err |-> ""]
        ELSE LET rec == [NewUser(email,
                                 IF Truthy(user_data.name) THEN user_data.name
                                 ELSE LocalPart(email), t)
                            EXCEPT !.avatar = user_data.avatar]
             IN  [db |-> Put(db, cognito_sub, rec), rec |-> <<rec>>, err |-> ""]
sync_cognito_user(db, user_data, t) ==
    LET cognito_sub == user_data.cognito_sub
        email == user_data.email
        byId == find_by_id(db, cognito_sub)
        found == IF Has(byId) THEN <<cognito_sub>> ELSE find_by_email(db, email)
    IN  IF ~Truthy(cognito_sub) \/ ~Truthy(email)
        THEN [db |-> db, rec |-> <<>>, err |-> "Missing required user info"]
        ELSE IF Has(found)
        THEN LET rec == [db[found[1]] EXCEPT !.lastLogin = t, !.updatedAt = t]
             IN  [db |-> Put(db, found[1], rec), rec |-> <<rec>>, err |-> ""]
        ELSE LET rec == [NewUser(email,
                                 IF Truthy(user_data.name) THEN user_data.name
                                 ELSE LocalPart(email), t)
                            EXCEPT !.avatar = user_data.avatar]
             IN  [db |-> Put(db, cognito_sub, rec), rec |-> <<rec>>, err |-> ""]

\* POST /sync with a JSON body
sync_user(db, g, body, t) ==
    LET user_data == [cognito_sub |-> g.user_sub,
                      email |-> g.user_email,
                      name |-> IF Truthy(g.user_name) THEN g.user_name
                               ELSE Get(body.name, None),
                      avatar |-> Get(body.avatar, None)]
        r == sync_cognito_user(db, user_data, t)
    IN  IF r.err # "" THEN Resp(db, 400, r.err, <<>>, 0)
        ELSE Resp(r.db, 200, "User synced successfully", r.rec, 0)

\* POST /<user_id>/subscriptions: the write is one atomic $addToSet on the
\* stored array cur; seen is the array the handler read for its 409 check
StoreAddFromRead(cur, seen, serie_id) == AddToSet(seen, serie_id)
StoreAdd(cur, seen, serie_id) == AddToSet(cur, serie_id)

AddWrite(db, user_id, seen, serie_id, t) ==
    IF user_id \in DOMAIN db
    THEN Put(db, user_id,
             [db[user_id] EXCEPT !.serie_subcribe = StoreAdd(@, seen, serie_id),
                                 !.updatedAt = t])
    ELSE db

add_subscription_nocheck(db, user_id, body, t) ==
    LET serie_id == Get(body.serie_id, None) IN
    IF ~Truthy(serie_id) THEN Resp(db, 400, "serie_id is required", <<>>, 0)
    ELSE IF ~Has(find_by_id(db, user_id)) THEN Resp(db, 404, "User not found", <<>>, 0)
    ELSE Resp(AddWrite(db, user_id, db[user_id].serie_subcribe, serie_id, t),
              200, "Subscription added successfully", <<>>, 0)
add_subscription(db, user_id, body, t) ==
    LET serie_id == Get(body.serie_id, None) IN
    IF ~Truthy(serie_id) THEN Resp(db, 400, "serie_id is required", <<>>, 0)
    ELSE IF ~Has(find_by_id(db, user_id)) THEN Resp(db, 404, "User not found", <<>>, 0)
    ELSE IF serie_id \in Range(db[user_id].serie_subcribe)
    THEN Resp(db, 409, "Already subscribed", <<>>, 0)
    ELSE Resp(AddWrite(db, user_id, db[user_id].serie_subcribe, serie_id, t),
              200, "Subscription added successfully", <<>>, 0)

\* DELETE /<user_id>/subscriptions/<serie_id>: one atomic $pull and $set
RemoveWriteNoStamp(db, user_id, serie_id, t) ==
    IF user_id \in DOMAIN db
    THEN Put(db, user_id, [db[user_id] EXCEPT !.serie_subcribe = Pull(@, serie_id)])
    ELSE db
RemoveWrite(db, user_id, serie_id, t) ==
    IF user_id \in DOMAIN db
    THEN Put(db, user_id,
             [db[user_id] EXCEPT !.serie_subcribe = Pull(@, serie_id), !.updatedAt = t])
    ELSE db

remove_subscription(db, user_id, serie_id, t) ==
    IF ~Has(find_by_id(db, user_id)) THEN Resp(db, 404, "User not found", <<>>, 0)
    ELSE Resp(RemoveWrite(db, user_id, serie_id, t),
              200, "Subscription removed successfully", <<>>, 0)

\* DELETE /subscriptions/serie/<serie_id>: update_many over the matching documents
MatchedAll(db, serie_id) == DOMAIN db
Matched(db, serie_id) == {u \in DOMAIN db : serie_id \in Range(db[u].serie_subcribe)}

remove_serie_from_all_users(db, serie_id, t) ==
    LET m == Matched(db, serie_id)
        db2 == [u \in DOMAIN db |->
                  IF u \in m
                  THEN [db[u] EXCEPT !.serie_subcribe = Pull(@, serie_id), !.updatedAt = t]
                  ELSE db[u]]
    IN  Resp(db2, 200, "Serie removed", <<>>, Cardinality(m))

(* ------------------------------ requests ------------------------------- *)
\* A call is the Authorization header and whether the key set can be fetched.
Call(hdr, up) == [hdr |-> hdr, jwks |-> up]

Ann == IdToken("u1", "a@x", "Ann")
Bob == IdToken("u2", "b@x", None)

Access == AccessToken("u1", APP_CLIENT_ID)
Absent == [kind |-> "absent", tok |-> NoToken]

\* callers of the routes that use the identity, and of those that only need one
CallsId == {Call(Bearer(t), TRUE) : t \in {Ann, Bob, Access}} \cup {Call(Absent, TRUE)}
CallsAny == {Call(Bearer(Ann), TRUE), Call(Absent, TRUE)}

\* every way a token can differ from a good one, alone and where the order of
\* the checks matters in pairs
Variants(t) ==
    {t,
     [t EXCEPT !.wellformed = FALSE],
     [t EXCEPT !.kid = None],
     [t EXCEPT !.kid = "k9"],
     [t EXCEPT !.kid = "k9", !.expired = TRUE],
     [t EXCEPT !.sig = FALSE],
     [t EXCEPT !.sig = FALSE, !.expired = TRUE],
     [t EXCEPT !.expired = TRUE],
     [t EXCEPT !.expired = TRUE, !.aud = OtherClient],
     [t EXCEPT !.aud = OtherClient],
     [t EXCEPT !.aud = OtherClient, !.iss_ok = FALSE],
     [t EXCEPT !.iss_ok = FALSE],
     [t EXCEPT !.token_use = "refresh"],
     [t EXCEPT !.token_use = None],
     [t EXCEPT !.sub = None]}

BaseTokens ==
    {Ann, Bob, [Bob EXCEPT !.cognito_username = "bob77"],
     AccessToken("u1", APP_CLIENT_ID), AccessToken("u1", OtherClient),
     AccessToken("u2", OtherClient), AccessToken("u2", None)}

CallsAll ==
    {Call(h, TRUE) : h \in NonBearer}
    \cup {Call(Bearer(v), TRUE) : v \in UNION {Variants(t) : t \in BaseTokens}}
    \cup {Call(Bearer(t), FALSE) : t \in BaseTokens}

ProfileBodies ==
    {EmptyBody,
     [EmptyBody EXCEPT !.userId = <<"u1">>, !.email = <<"a@x">>],
     [EmptyBody EXCEPT !.userId = <<"u2">>, !.email = <<"b@x">>, !.role = <<"admin">>],
     [EmptyBody EXCEPT !.userId = <<"u1">>, !.email = <<"b@x">>],
     [EmptyBody EXCEPT !.userId = <<"u2">>]}

\* a time of the caller's choosing, sent in a body
CallerTime == 9

UpdateBodies ==
    {EmptyBody,
     [EmptyBody EXCEPT !.name = <<"Zed">>],
     [EmptyBody EXCEPT !.role = <<"admin">>],
     [EmptyBody EXCEPT !.serie_subcribe = << <<"s1", "s1">> >>],
     [EmptyBody EXCEPT !.userId = <<"u2">>, !.createdAt = <<CallerTime>>,
                       !.updatedAt = <<CallerTime>>]}

SyncBodies == {EmptyBody, [EmptyBody EXCEPT !.name = <<"Zed">>, !.avatar = <<"http://img">>]}

AddBodies == {EmptyBody} \cup {[EmptyBody EXCEPT !.serie_id = <<s>>] : s \in SerieIds}

Unauthorized(db, a) == Resp(db, 401, a.message, <<>>, 0)

Subject(a) == IF a.ok THEN a.g[1].user_sub ELSE None

\* the previous request was this same operation on the same target by the same
\* subject, and it succeeded
Repeats(op, uid, sid, a) ==
    /\ last.op = op /\ last.uid = uid /\ last.sid = sid
    /\ last.status \in {200, 201}
    /\ a.ok /\ last.sub = Subject(a)

\* the record of a request and its response
Exchange(op, call, uid, sid, body, a, r) ==
    [op |-> op, call |-> call, uid |-> uid, sid |-> sid, body |-> body,
     invoked |-> a.ok, g |-> a.g, sub |-> Subject(a), status |-> r.status,
     message |-> r.message, data |-> r.data, count |-> r.count,
     again |-> IF Repeats(op, uid, sid, a)
               THEN <<[status |-> last.status, count |-> last.count]>>
               ELSE <<>>,
     key |-> <<>>, hit |-> FALSE, etag |-> <<>>, upload |-> <<>>, http |-> <<>>,
     client |-> <<>>]

\* the request is answered: the collection is written and the exchange recorded
Served(op, call, uid, sid, body, a, r) ==
    /\ nreq < MaxReq
    /\ users' = r.db
    /\ last' = Exchange(op, call, uid, sid, body, a, r)
    /\ nreq' = nreq + 1
    /\ UNCHANGED <<now, cache, reqs, media>>

VerifyJwt(C) ==
    \E call \in C :
        LET a == authenticate_jwt(call.hdr, call.jwks, users)
            r == IF a.ok THEN verify_jwt(users, a.g[1]) ELSE Unauthorized(users, a)
        IN  Served("verify_jwt", call, None, None, EmptyBody, a, r)

CreateProfile(C) ==
    \E call \in C, body \in ProfileBodies :
        LET a == authenticate_jwt(call.hdr, call.jwks, users)
            r == IF a.ok THEN create_profile(users, body, now) ELSE Unauthorized(users, a)
        IN  Served("create_profile", call, Get(body.userId, None), None, body, a, r)

GetCurrentProfile(C) ==
    \E call \in C :
        LET a == authenticate_jwt(call.hdr, call.jwks, users)
            r == IF a.ok THEN get_current_profile(users, a.g[1], now)
                 ELSE Unauthorized(users, a)
        IN  Served("get_current_profile", call, None, None, EmptyBody, a, r)

UpdateUserProfile(C) ==
    \E call \in C, uid \in UserIds, body \in UpdateBodies :
        LET a == authenticate_jwt(call.hdr, call.jwks, users)
            r == IF a.ok THEN update_user_profile(users, uid, body, now)
                 ELSE Unauthorized(users, a)
        IN  Served("update_user_profile", call, uid, None, body, a, r)

SyncUser(C) ==
    \E call \in C, body \in SyncBodies :
        LET a == authenticate_jwt(call.hdr, call.jwks, users)
            r == IF a.ok THEN sync_user(users, a.g[1], body, now) ELSE Unauthorized(users, a)
        IN  Served("sync_user", call, None, None, body, a, r)

AddSubscription(C) ==
    \E call \in C, uid \in UserIds, body \in AddBodies :
        LET a == authenticate_jwt(call.hdr, call.jwks, users)
            r == IF a.ok THEN add_subscription(users, uid, body, now)
                 ELSE Unauthorized(users, a)
        IN  Served("add_subscription", call, uid, Get(body.serie_id, None), body, a, r)

RemoveSubscription(C) ==
    \E call \in C, uid \in UserIds, sid \in SerieIds :
        LET a == authenticate_jwt(call.hdr, call.jwks, users)
            r == IF a.ok THEN remove_subscription(users, uid, sid, now)
                 ELSE Unauthorized(users, a)
        IN  Served("remove_subscription", call, uid, sid, EmptyBody, a, r)

RemoveSerieFromAllUsers(C) ==
    \E call \in C, sid \in SerieIds :
        LET a == authenticate_jwt(call.hdr, call.jwks, users)
            r == IF a.ok THEN remove_serie_from_all_users(users, sid, now)
                 ELSE Unauthorized(users, a)
        IN  Served("remove_serie_from_all_users", call, None, sid, EmptyBody, a, r)

\* the wall clock (datetime.now) moves on between requests
Tick ==
    /\ now < MaxTime
    /\ now' = now + 1
    /\ UNCHANGED <<users, last, nreq, cache, reqs, media>>

(* ------------------------------- Init ---------------------------------- *)
\* Collections left by earlier runs: each user is missing or was provisioned
\* at time 0 and has since subscribed to some series.
InitArrays == {<<>>, <<"s1">>, <<"s1", "s2">>}

IdentityEmail(u) == IF u = "u1" THEN "a@x" ELSE "b@x"

InitStores ==
    UNION {{db \in [D -> {[NewUser(e, n, 0) EXCEPT !.serie_subcribe = arr] :
                             e \in Emails, n \in {None}, arr \in InitArrays}] :
               \A u \in D : db[u].email = IdentityEmail(u)} : D \in SUBSET UserIds}

NoRequest ==
    [op |-> "none", call |-> Call(Absent, TRUE),
     uid |-> None, sid |-> None, body |-> EmptyBody, invoked |-> FALSE, g |-> <<>>,
     sub |-> None,
     status |-> 0, message |-> "", data |-> <<>>, count |-> 0, again |-> <<>>,
     key |-> <<>>, hit |-> FALSE, etag |-> <<>>, upload |-> <<>>, http |-> <<>>,
     client |-> <<>>]

Init ==
    /\ users \in InitStores
    /\ now = 0
    /\ last = NoRequest
    /\ nreq = 0
    /\ cache = <<>>
    /\ reqs = <<>>
    /\ media = {}

Next ==
    \/ CreateProfile(CallsAny)
    \/ GetCurrentProfile(CallsId)
    \/ UpdateUserProfile(CallsAny)
    \/ SyncUser(CallsId)
    \/ AddSubscription(CallsAny)
    \/ RemoveSubscription(CallsAny)
    \/ RemoveSerieFromAllUsers(CallsAny)
    \/ Tick

Spec == Init /\ [][Next]_vars

\* The decorator under every kind of Authorization header, in front of the
\* verify route (read-only) and of GET /profile (which may write).
AuthVerify == nreq < MaxAuthReq /\ VerifyJwt(CallsAll)
AuthProfile == nreq < MaxAuthReq /\ GetCurrentProfile(CallsAll)

NextAuth == AuthVerify \/ AuthProfile

SpecAuth == Init /\ [][NextAuth]_vars

(* ----------------------------- avatar upload --------------------------- *)
MaxMediaReq == 1

FormBodies ==
    {EmptyBody,
     [EmptyBody EXCEPT !.name = <<"Zed">>],
     [EmptyBody EXCEPT !.avatar = <<"http://form">>]}

UpdateUserAvatar(C) ==
    \E call \in C, uid \in UserIds, form \in FormBodies, file \in AvatarFiles,
       del \in DeleteAnswers, up \in UploadAnswers :
        LET a == authenticate_jwt(call.hdr, call.jwks, users)
            h == IF a.ok
                 THEN update_user_profile_multipart(users, media, uid, form, file, del, up, now)
                 ELSE [resp |-> Unauthorized(users, a), media |-> media]
        IN  /\ nreq < MaxMediaReq
            /\ users' = h.resp.db
            /\ media' = h.media
            /\ last' = [Exchange("update_user_profile", call, uid, None, form, a, h.resp)
                           EXCEPT !.upload = <<[file |-> file, del |-> del, up |-> up]>>]
            /\ nreq' = nreq + 1
            /\ UNCHANGED <<now, cache, reqs>>

\* records left by earlier runs, some with an avatar already stored
InitMedia ==
    /\ users \in {[u \in DOMAIN db |-> [db[u] EXCEPT !.avatar = av[u]]] :
                     db \in {d \in InitStores : \A u \in DOMAIN d : d[u].serie_subcribe = <<>>},
                     av \in [UserIds -> {"", "http://media/t1"}]}
    /\ now \in 0..MaxTime
    /\ last = NoRequest
    /\ nreq = 0
    /\ cache = <<>>
    /\ reqs = <<>>
    /\ media = {}

NextMedia == UpdateUserAvatar({Call(Bearer(Ann), TRUE), Call(Absent, TRUE)})

SpecMedia == InitMedia /\ [][NextMedia]_vars

(* ---------------------------- response cache ---------------------------- *)
KEY_PREFIX == "educonnect"

\* the key as the cache store holds it, in pieces: flask_cache_ + KEY_PREFIX
REDIS_KEY_PREFIX == <<"flask_cache_", KEY_PREFIX>>

\* _build_cache_key: "{KEY_PREFIX}:{scope}:{method}:{path}:{query}", kept as
\* its parts; g is the request context, a record of the attributes set on it
ScopeUserId(g) == IF "user" \in DOMAIN g THEN g["user"].userId ELSE "anonymous"

_build_cache_key(scope, include_user, g, method, path, query) ==
    [prefix |-> KEY_PREFIX,
     scope  |-> IF include_user THEN <<"user", ScopeUserId(g)>> ELSE <<scope>>,
     method |-> method, path |-> path, query |-> query]

\* cache.get / cache.set: a value is <<v>>, or <<>> for Python's None; a key
\* that is absent and a key that holds None both read as None
cache_get(store, key) == IF key \in DOMAIN store THEN store[key] ELSE <<>>

cache_set(store, key, value) ==
    [k \in DOMAIN store \cup {key} |-> IF k = key THEN value ELSE store[k]]

\* generate_etag: None for None, else a digest of the JSON value, one per value
generate_etag(data) == IF Has(data) THEN <<"md5", data[1]>> ELSE <<>>

\* request paths, as the pieces the invalidation patterns are built from
SeriesBase == "/api/v1/series"
ListPath == <<SeriesBase>>
DetailPath(s) == <<SeriesBase, "/", s>>
LessonsPath(s) == <<SeriesBase, "/", s, "/", "lessons">>
SubscriptionsPath == <<SeriesBase, "/", "subscriptions">>
MePath == <<SeriesBase, "/", "me">>

CachePaths == {SubscriptionsPath, MePath}
PublicPaths == {ListPath} \cup {DetailPath(s) : s \in SerieIds}
CacheQueries == {"", "page=2"}
Methods == {"GET", "POST"}

\* What a wrapped handler can return: a Response with a status (response), or
\* a (body, status) pair, which has no status_code; json says whether the
\* Response has a JSON mimetype, so that get_json() yields its value.
Outcomes == {[status |-> 200, response |-> TRUE, json |-> TRUE],
             [status |-> 404, response |-> TRUE, json |-> TRUE],
             [status |-> 200, response |-> FALSE, json |-> TRUE],
             [status |-> 200, response |-> TRUE, json |-> FALSE]}

\* a route wrapped as in the decorator's usage note
\*   @authenticate_jwt  @cached_with_user(timeout)  def get_subscribed()
\* whose handler answers for the caller: the body names the subject it was
\* computed for
get_subscribed(g, path, query, out) ==
    [status |-> out.status, response |-> out.response, json |-> out.json,
     data |-> IF out.status = 200 /\ out.json
              THEN <<[user_id |-> g.user_sub, path |-> path, query |-> query, v |-> 0]>>
              ELSE <<>>]

MaxCacheReq == 2

\* a public route  @cached_public(timeout)  def list_items()  whose body may
\* differ from one execution to the next (v)
Versions == {1, 2}

list_items(path, query, out, v) ==
    [status |-> out.status, response |-> out.response, json |-> out.json,
     data |-> IF out.status = 200 /\ out.json
              THEN <<[user_id |-> None, path |-> path, query |-> query, v |-> v]>>
              ELSE <<>>]

\* Response.get_json(): None unless the mimetype is JSON
get_json(response) == IF response.json THEN response.data ELSE <<>>

\* what is answered and what the cache holds afterwards; hit says that the
\* body came from the cache and the handler did not run
Answer(store, status, data, etag, key, hit) ==
    [cache |-> store, status |-> status, data |-> data, etag |-> etag,
     key |-> key, hit |-> hit]

\* decorated_function of cached_public and of cached_with_user, which differ
\* in the key only; if_none_match is the request's If-None-Match header, if
\* any; response is what the handler returns if it is run.  After a miss a
\* 200 Response has get_json() stored and digested as it is, None included
\* (the ETag header of None is written <<>> here).
decorated_function_nostore(store, cache_key, method, if_none_match, response) ==
    LET cached_data == cache_get(store, cache_key) IN
    IF method # "GET"
    THEN Answer(store, response.status, response.data, <<>>, <<>>, FALSE)
    ELSE IF Has(cached_data)
    THEN IF Has(if_none_match) /\ if_none_match[1] = generate_etag(cached_data)
         THEN Answer(store, 304, <<>>, <<>>, <<cache_key>>, TRUE)
         ELSE Answer(store, 200, cached_data, <<generate_etag(cached_data)>>,
                     <<cache_key>>, TRUE)
    ELSE IF response.response /\ response.status = 200
    THEN Answer(store, 200, response.data,
                <<generate_etag(get_json(response))>>, <<cache_key>>, FALSE)
    ELSE Answer(store, response.status, response.data, <<>>, <<cache_key>>, FALSE)
decorated_function(store, cache_key, method, if_none_match, response) ==
    LET cached_data == cache_get(store, cache_key) IN
    IF method # "GET"
    THEN Answer(store, response.status, response.data, <<>>, <<>>, FALSE)
    ELSE IF Has(cached_data)
    THEN IF Has(if_none_match) /\ if_none_match[1] = generate_etag(cached_data)
         THEN Answer(store, 304, <<>>, <<>>, <<cache_key>>, TRUE)
         ELSE Answer(store, 200, cached_data, <<generate_etag(cached_data)>>,
                     <<cache_key>>, TRUE)
    ELSE IF response.response /\ response.status = 200
    THEN Answer(cache_set(store, cache_key, get_json(response)), 200, response.data,
                <<generate_etag(get_json(response))>>, <<cache_key>>, FALSE)
    ELSE Answer(store, response.status, response.data, <<>>, <<cache_key>>, FALSE)

cached_with_user(store, g, method, path, query, if_none_match, out) ==
    decorated_function(store, _build_cache_key("user", TRUE, g, method, path, query),
                       method, if_none_match, get_subscribed(g, path, query, out))

cached_public(store, method, path, query, if_none_match, out, v) ==
    decorated_function(store, _build_cache_key("public", FALSE, <<>>, method, path, query),
                       method, if_none_match, list_items(path, query, out, v))

\* the ETags a client can hold: those of the bodies now cached
KnownETags(store) ==
    {<<>>} \cup {<<generate_etag(store[k])>> : k \in {x \in DOMAIN store : Has(store[x])}}

\* the HTTP side of a request to a cached route
Http(method, path, query, if_none_match, out) ==
    [method |-> method, path |-> path, query |-> query,
     if_none_match |-> if_none_match, out |-> out]

CachedUserGet(C) ==
    \E call \in C, method \in Methods, path \in CachePaths, query \in CacheQueries,
       if_none_match \in KnownETags(cache), out \in Outcomes :
        LET a == authenticate_jwt(call.hdr, call.jwks, users)
            c == IF a.ok
                 THEN cached_with_user(cache, a.g[1], method, path, query, if_none_match, out)
                 ELSE Answer(cache, 401, <<>>, <<>>, <<>>, FALSE)
            r == Resp(users, c.status, IF a.ok THEN "" ELSE a.message, c.data, 0)
        IN  /\ nreq < MaxReq
            /\ cache' = c.cache
            /\ last' = [Exchange("get_subscribed", call, None, None, EmptyBody, a, r)
                           EXCEPT !.key = c.key, !.hit = c.hit, !.etag = c.etag,
                                  !.http = <<Http(method, path, query, if_none_match, out)>>]
            /\ nreq' = nreq + 1
            /\ UNCHANGED <<users, now, reqs, media>>

\* the previous request was a GET of the same public path and query, and it
\* was answered 200 with an ETag
SameGet(method, path, query) ==
    /\ last.op = "list_items" /\ method = "GET" /\ last.status = 200 /\ Has(last.etag)
    /\ last.http[1].method = "GET"
    /\ last.http[1].path = path /\ last.http[1].query = query

CachedPublicGet ==
    \E method \in Methods, path \in PublicPaths, query \in CacheQueries,
       if_none_match \in KnownETags(cache), out \in Outcomes, v \in Versions :
        LET c == cached_public(cache, method, path, query, if_none_match, out, v)
        IN  /\ nreq < MaxCacheReq
            /\ path # ListPath => query = ""
            /\ cache' = c.cache
            /\ last' = [NoRequest EXCEPT
                           !.op = "list_items", !.invoked = TRUE, !.status = c.status,
                           !.data = c.data, !.key = c.key, !.hit = c.hit, !.etag = c.etag,
                           !.again = IF SameGet(method, path, query)
                                     THEN <<[status |-> last.status, count |-> 0]>>
                                     ELSE <<>>,
                           !.http = <<Http(method, path, query, if_none_match, out)>>]
            /\ nreq' = nreq + 1
            /\ UNCHANGED <<users, now, reqs, media>>

\* an entry outlives its timeout and is dropped by the cache store
CacheExpire ==
    \E k \in DOMAIN cache :
        /\ cache' = [x \in DOMAIN cache \ {k} |-> cache[x]]
        /\ UNCHANGED <<users, now, last, nreq, reqs, media>>

(* --------------------------- cache invalidation ------------------------- *)
\* the key string in the store, by pieces:
\*   flask_cache_educonnect:{scope}:{method}:{path}:{query}
RedisKey(key) ==
    REDIS_KEY_PREFIX \o <<":">>
    \o (IF key.scope[1] = "user" THEN <<"user_", key.scope[2]>> ELSE key.scope)
    \o <<":", key.method, ":">> \o key.path \o <<":", key.query>>

\* scan_iter(match=pattern): glob matching, where the piece "*" stands for any
\* run of pieces
RECURSIVE Glob(_, _)
Glob(pattern, str) ==
    IF pattern = <<>> THEN str = <<>>
    ELSE IF Head(pattern) = "*"
    THEN Glob(Tail(pattern), str) \/ (str # <<>> /\ Glob(pattern, Tail(str)))
    ELSE str # <<>> /\ Head(str) = Head(pattern) /\ Glob(Tail(pattern), Tail(str))

\* _delete_by_pattern with the store reachable
_delete_by_pattern(store, pattern) ==
    [k \in {x \in DOMAIN store : ~Glob(pattern, RedisKey(x))} |-> store[k]]

RECURSIVE DeleteAll(_, _)
DeleteAll(store, patterns) ==
    IF patterns = <<>> THEN store
    ELSE DeleteAll(_delete_by_pattern(store, Head(patterns)), Tail(patterns))

\* the patterns of invalidate_series_cache, in the order they are appended
SeriesPatterns ==
    <<REDIS_KEY_PREFIX \o <<":", "public", ":", "GET", ":", SeriesBase, "*">>,
      REDIS_KEY_PREFIX \o <<":", "user_", "*", ":", "GET", ":",
                            SeriesBase, "/", "subscriptions", "*">>,
      REDIS_KEY_PREFIX \o <<":", "user_", "*", ":", "GET", ":", SeriesBase, "/", "me", "*">> >>

SeriePatternsExact(serie_id) ==
    <<REDIS_KEY_PREFIX \o <<":", "public", ":", "GET", ":", SeriesBase, "/", serie_id, "*">>,
      REDIS_KEY_PREFIX \o <<":", "user_", "*", ":", "GET", ":",
                            SeriesBase, "/", serie_id, "/", "lessons", "*">> >>

\* invalidate_series_cache(serie_id): pattern deletes, or cache.clear() when
\* the store cannot be reached
invalidate_series_cache(store, serie_id, redis) ==
    IF redis
    THEN DeleteAll(store, SeriesPatterns
                          \o (IF Truthy(serie_id) THEN SeriePatternsExact(serie_id) ELSE <<>>))
    ELSE <<>>

InvalidateSeries ==
    \E serie_id \in SerieIds \cup {None}, redis \in BOOLEAN :
        /\ nreq < MaxCacheReq
        /\ cache' = invalidate_series_cache(cache, serie_id, redis)
        /\ last' = [NoRequest EXCEPT !.op = "invalidate_series_cache",
                                     !.sid = serie_id, !.invoked = redis]
        /\ nreq' = nreq + 1
        /\ UNCHANGED <<users, now, reqs, media>>

InitCache ==
    /\ users \in {db \in InitStores :
                     DOMAIN db = UserIds /\ \A u \in UserIds : db[u].serie_subcribe = <<>>}
    /\ now = 0
    /\ last = NoRequest
    /\ nreq = 0
    /\ cache = <<>>
    /\ reqs = <<>>
    /\ media = {}

CacheGet == CachedUserGet(CallsId)

NextCache == CacheGet \/ CacheExpire

SpecCache == InitCache /\ [][NextCache]_vars

\* The public routes and the invalidation, over a store in which earlier
\* requests by u1 to the user-scoped routes have left some entries.
UserEntries ==
    {cached_with_user(<<>>, Identity(Ann, <<>>), "GET", path, "", <<>>, e).cache :
        path \in {SubscriptionsPath} \cup {LessonsPath(s) : s \in SerieIds},
        e \in {o \in Outcomes : o.status = 200 /\ o.response /\ o.json}}

Merge(stores) ==
    [k \in UNION {DOMAIN st : st \in stores} |->
        (CHOOSE st \in stores : k \in DOMAIN st)[k]]

InitPublic ==
    /\ users = <<>>
    /\ now = 0
    /\ last = NoRequest
    /\ nreq = 0
    /\ cache \in {Merge(S) : S \in SUBSET UserEntries}
    /\ reqs = <<>>
    /\ media = {}

PublicExpire == CacheExpire

NextPublic == CachedPublicGet \/ PublicExpire \/ InvalidateSeries

SpecPublic == InitPublic /\ [][NextPublic]_vars

(* ------------------- concurrent subscription requests ------------------- *)
\* NConc authenticated add / remove requests against user u1 are in flight at
\* once (one worker each).  A request first reads the user (find_by_id and,
\* for an add, the 409 check) and later issues its single update_one.
ConcUser == "u1"

ConcRequest(op, sid) ==
    [op |-> op, uid |-> ConcUser, sid |-> sid, pc |-> "start", seen |-> <<>>, status |-> 0]

ConcRequests == {ConcRequest(op, sid) : op \in {"add", "remove"}, sid \in SerieIds}

InitConc ==
    /\ users \in {db \in InitStores : DOMAIN db = {ConcUser}}
    /\ reqs \in {[base |-> users, run |-> run] : run \in [1..NConc -> ConcRequests]}
    /\ now = 0
    /\ last = NoRequest
    /\ nreq = 0
    /\ cache = <<>>
    /\ media = {}

Finish(p, status) ==
    reqs' = [reqs EXCEPT !.run[p].pc = "done", !.run[p].status = status]

AddCheck(p) ==
    /\ reqs.run[p].op = "add" /\ reqs.run[p].pc = "start"
    /\ LET user == find_by_id(users, reqs.run[p].uid) IN
         IF ~Has(user) THEN Finish(p, 404)
         ELSE IF reqs.run[p].sid \in Range(user[1].serie_subcribe) THEN Finish(p, 409)
         ELSE reqs' = [reqs EXCEPT !.run[p].pc = "checked",
                                   !.run[p].seen = user[1].serie_subcribe]
    /\ UNCHANGED <<users, now, last, nreq, cache, media>>

AddStore(p) ==
    /\ reqs.run[p].op = "add" /\ reqs.run[p].pc = "checked"
    /\ users' = AddWrite(users, reqs.run[p].uid, reqs.run[p].seen, reqs.run[p].sid, now)
    /\ Finish(p, 200)
    /\ UNCHANGED <<now, last, nreq, cache, media>>

RemoveCheck(p) ==
    /\ reqs.run[p].op = "remove" /\ reqs.run[p].pc = "start"
    /\ IF ~Has(find_by_id(users, reqs.run[p].uid)) THEN Finish(p, 404)
       ELSE reqs' = [reqs EXCEPT !.run[p].pc = "checked"]
    /\ UNCHANGED <<users, now, last, nreq, cache, media>>

RemoveStore(p) ==
    /\ reqs.run[p].op = "remove" /\ reqs.run[p].pc = "checked"
    /\ users' = RemoveWrite(users, reqs.run[p].uid, reqs.run[p].sid, now)
    /\ Finish(p, 200)
    /\ UNCHANGED <<now, last, nreq, cache, media>>

NextConc ==
    \E p \in 1..NConc : AddCheck(p) \/ AddStore(p) \/ RemoveCheck(p) \/ RemoveStore(p)

SpecConc == InitConc /\ [][NextConc]_vars

(* ------------------- concurrent GET /profile requests ------------------ *)
NProv == 2

InitProv ==
    /\ users \in {db \in InitStores : DOMAIN db \subseteq {"u2"}}
    /\ reqs \in {[base |-> users, run |-> run] :
                    run \in [1..NProv -> {[tok |-> tok, pc |-> "start", g |-> <<>>,
                                             status |-> 0] : tok \in {Ann, Bob}}]}
    /\ now = 0
    /\ last = NoRequest
    /\ nreq = 0
    /\ cache = <<>>
    /\ media = {}

\* get_current_profile up to  if not user
ProfileCheck(p) ==
    /\ reqs.run[p].pc = "start"
    /\ LET a == authenticate_jwt(Bearer(reqs.run[p].tok), TRUE, users) IN
         IF ~a.ok THEN Finish(p, 401)
         ELSE IF Has(find_by_id(users, a.g[1].user_sub)) THEN Finish(p, 200)
         ELSE reqs' = [reqs EXCEPT !.run[p].pc = "absent", !.run[p].g = a.g]
    /\ UNCHANGED <<users, now, last, nreq, cache, media>>

\* MongoUserRepository.create up to the payload: find_one, then update when
\* a document has the id
CreateCheck(p) ==
    /\ reqs.run[p].pc = "absent"
    /\ LET g == reqs.run[p].g[1]
           user_data == [EmptyBody EXCEPT !.userId = <<g.user_sub>>,
                                          !.name = <<g.user_name>>,
                                          !.email = <<g.user_email>>]
       IN  IF g.user_sub \in DOMAIN users
           THEN /\ users' = repo_update(users, g.user_sub, user_data, now).db
                /\ Finish(p, 201)
           ELSE IF g.user_email = None
           THEN /\ Finish(p, 500)
                /\ UNCHANGED users
           ELSE /\ reqs' = [reqs EXCEPT !.run[p].pc = "insert"]
                /\ UNCHANGED users
    /\ UNCHANGED <<now, last, nreq, cache, media>>

\* collection.insert_one(payload): DuplicateKeyError when the _id is taken,
\* answered 500 by the handler's except
CreateInsert(p) ==
    /\ reqs.run[p].pc = "insert"
    /\ LET g == reqs.run[p].g[1] IN
         IF g.user_sub \in DOMAIN users
         THEN /\ Finish(p, 500)
              /\ UNCHANGED users
         ELSE /\ users' = Put(users, g.user_sub, NewUser(g.user_email, g.user_name, now))
              /\ Finish(p, 201)
    /\ UNCHANGED <<now, last, nreq, cache, media>>

NextProv == \E p \in 1..NProv : ProfileCheck(p) \/ CreateCheck(p) \/ CreateInsert(p)

SpecProv == InitProv /\ [][NextProv]_vars

(* -------------------------- subscriptions read ------------------------- *)
\* GET /<user_id>/subscriptions:
\*   user.get("serie_subcribe", []) or user.get("serie_subscribe", [])
get_user_subscriptions(db, user_id) ==
    LET user == find_by_id(db, user_id) IN
    IF ~Has(user) THEN Resp(db, 404, "User not found", <<>>, 0)
    ELSE LET subscriptions == IF user[1].serie_subcribe # <<>>
                              THEN user[1].serie_subcribe
                              ELSE user[1].serie_subscribe
         IN  Resp(db, 200, "", <<[user_id |-> user_id, subscriptions |-> subscriptions]>>, 0)

GetUserSubscriptions(C) ==
    \E call \in C, uid \in UserIds :
        LET a == authenticate_jwt(call.hdr, call.jwks, users)
            r == IF a.ok THEN get_user_subscriptions(users, uid)
                 ELSE Unauthorized(users, a)
        IN  Served("get_user_subscriptions", call, uid, None, EmptyBody, a, r)

\* PUT /<user_id> with a body that carries the serie_subscribe spelling
PutSubscribe(C) ==
    \E call \in C, uid \in UserIds, s \in SerieIds :
        LET body == [EmptyBody EXCEPT !.serie_subscribe = << <<s>> >>]
            a == authenticate_jwt(call.hdr, call.jwks, users)
            r == IF a.ok THEN update_user_profile(users, uid, body, now)
                 ELSE Unauthorized(users, a)
        IN  Served("update_user_profile", call, uid, None, body, a, r)

NextSubs ==
    \/ GetUserSubscriptions(CallsAny)
    \/ PutSubscribe(CallsAny)
    \/ AddSubscription(CallsAny)
    \/ RemoveSubscription(CallsAny)

SpecSubs == Init /\ [][NextSubs]_vars

(* ----------------------------- Media client ---------------------------- *)
MaxClientCalls == 1

\* the JSON object of a 2xx answer; a key is <<v>> or missing
EmptyJson ==
    [url |-> <<>>, key |-> <<>>, transcript_status |-> <<>>, urls |-> <<>>,
     success |-> <<>>, deleted |-> <<>>, failed |-> <<>>]

\* the argument lists of the batch operations
UrlLists == {<<>>, <<"http://media/t1">>, <<"http://media/t1", "http://media/t2">>}

\* how one HTTP call to the Media service ends
MediaOutcomes ==
    {[kind |-> k, status |-> 0, json |-> EmptyJson] : k \in {"timeout", "connection"}}
    \cup {[kind |-> "status", status |-> c, json |-> EmptyJson] : c \in {400, 404, 500, 503}}
    \cup {[kind |-> "ok", status |-> 200, json |-> j] :
            j \in {EmptyJson,
                   [EmptyJson EXCEPT !.url = <<"http://media/t1">>, !.key = <<"k/t1">>,
                                     !.urls = << <<"http://media/t1">> >>,
                                     !.success = <<TRUE>>,
                                     !.deleted = << <<"http://media/t1">> >>,
                                     !.failed = << <<"http://media/t2">> >>],
                   [EmptyJson EXCEPT !.success = <<FALSE>>,
                                     !.transcript_status = <<"pending">>]}}

\* _make_request: the parsed JSON of a 2xx answer; any RequestException
\* (timeout, transport, raise_for_status) is raised again as Exception
_make_request(outcome) ==
    [raised |-> outcome.kind # "ok", json |-> outcome.json]

upload_video(outcome) ==
    LET r == _make_request(outcome) IN
    IF r.raised THEN None
    ELSE [url |-> Get(r.json.url, None), key |-> Get(r.json.key, None),
          transcript_status |-> Get(r.json.transcript_status, "disabled")]

upload_document(outcome) ==
    LET r == _make_request(outcome) IN
    IF r.raised THEN None ELSE Get(r.json.url, None)

upload_documents_batch(outcome) ==
    LET r == _make_request(outcome) IN
    IF r.raised THEN <<>> ELSE Get(r.json.urls, <<>>)

delete_files_batch_nofailed(urls, outcome) ==
    LET r == _make_request(outcome) IN
    [deleted |-> Get(r.json.deleted, <<>>), failed |-> Get(r.json.failed, <<>>)]
delete_files_batch(urls, outcome) ==
    LET r == _make_request(outcome) IN
    IF r.raised THEN [deleted |-> <<>>, failed |-> urls]
    ELSE [deleted |-> Get(r.json.deleted, <<>>), failed |-> Get(r.json.failed, <<>>)]

\* health_check: requests.get without _make_request
health_check(outcome) == outcome.kind = "ok" /\ outcome.status = 200

\* one call of a client operation, with what it returned
ClientCall(op, urls, outcome, result) ==
    /\ nreq < MaxClientCalls
    /\ last' = [NoRequest EXCEPT
                   !.op = op,
                   !.client = <<[urls |-> urls, outcome |-> outcome, result |-> result]>>]
    /\ nreq' = nreq + 1
    /\ UNCHANGED <<users, now, cache, reqs, media>>

UploadThumbnail ==
    \E o \in MediaOutcomes :
        ClientCall("upload_thumbnail", <<>>, o, upload_thumbnail(IF _make_request(o).raised THEN <<>>
                                    ELSE _make_request(o).json.url))
UploadVideo == \E o \in MediaOutcomes : ClientCall("upload_video", <<>>, o, upload_video(o))
UploadDocument ==
    \E o \in MediaOutcomes : ClientCall("upload_document", <<>>, o, upload_document(o))
UploadDocumentsBatch ==
    \E o \in MediaOutcomes, files \in UrlLists :
        ClientCall("upload_documents_batch", files, o, upload_documents_batch(o))
DeleteFile ==
    \E o \in MediaOutcomes, u \in ThumbUrls :
        ClientCall("delete_file", <<u>>, o, delete_file(IF _make_request(o).raised THEN <<>>
                               ELSE _make_request(o).json.success))
DeleteFilesBatch ==
    \E o \in MediaOutcomes, urls \in UrlLists :
        ClientCall("delete_files_batch", urls, o, delete_files_batch(urls, o))
HealthCheck == \E o \in MediaOutcomes : ClientCall("health_check", <<>>, o, health_check(o))

InitClient ==
    /\ users = <<>>
    /\ now = 0
    /\ last = NoRequest
    /\ nreq = 0
    /\ cache = <<>>
    /\ reqs = <<>>
    /\ media = {}

NextClient ==
    \/ UploadThumbnail \/ UploadVideo \/ UploadDocument \/ UploadDocumentsBatch
    \/ DeleteFile \/ DeleteFilesBatch \/ HealthCheck

SpecClient == InitClient /\ [][NextClient]_vars

(* ======================= properties of the service ===================== *)
\* a step that answers a request of the given operation
Answers(op) == nreq' = nreq + 1 /\ last'.op = op

\* the fields of a document other than the misspelled subscription array
Rest(rec) == [rec EXCEPT !.serie_subcribe = <<>>]

\* C1: in every reachable state no user's subscription array, under either
\* spelling, holds the same serie id twice.
C1_NoDuplicateSubscriptions ==
    \A u \in DOMAIN users :
        NoDup(users[u].serie_subcribe) /\ NoDup(users[u].serie_subscribe)

\* C3: the self-service profile endpoints never change a stored role, and a
\* record they create has role student.
SelfService == {"create_profile", "get_current_profile", "update_user_profile", "sync_user"}

C3_RoleNotWritable ==
    [][(nreq' = nreq + 1 /\ last'.op \in SelfService) =>
          /\ \A u \in DOMAIN users : users'[u].role = users[u].role
          /\ \A u \in DOMAIN users' \ DOMAIN users : users'[u].role = "student"]_vars

\* C7: an add of a serie id the user does not hold succeeds and stores it once;
\* the same add repeated right after is answered 409 "Already subscribed",
\* writes nothing, and the array then holds the id exactly once.
C7_SecondAddConflicts ==
    [][(Answers("add_subscription") /\ last'.invoked /\ Truthy(last'.sid)
            /\ last'.uid \in DOMAIN users) =>
          LET u == last'.uid
              s == last'.sid
          IN  /\ s \notin Range(users[u].serie_subcribe) =>
                    /\ last'.status = 200
                    /\ Count(users'[u].serie_subcribe, s) = 1
              /\ Has(last'.again) =>
                    /\ last'.status = 409
                    /\ last'.message = "Already subscribed"
                    /\ users' = users
                    /\ Count(users'[u].serie_subcribe, s) = 1]_vars

C7_Witness ==
    /\ last.op = "add_subscription" /\ Has(last.again)
    /\ last.again[1].status = 200 /\ last.status = 409
    /\ Count(users[last.uid].serie_subcribe, last.sid) = 1

\* C8: removing a serie id the user does not hold answers 200 and changes only
\* updatedAt, which becomes the time of the call; for an unknown user the
\* answer is 404 and nothing changes.
C8_RemoveAbsentIsNoOp ==
    [][(Answers("remove_subscription") /\ last'.invoked) =>
          LET u == last'.uid
              s == last'.sid
          IN  /\ u \notin DOMAIN users => last'.status = 404 /\ users' = users
              /\ (u \in DOMAIN users /\ s \notin Range(users[u].serie_subcribe)) =>
                    /\ last'.status = 200
                    /\ users' = [users EXCEPT ![u].updatedAt = now]]_vars

C8_Witness ==
    /\ last.op = "remove_subscription" /\ Has(last.again) /\ last.status = 200
    /\ users[last.uid].updatedAt = now /\ now > 0
    /\ users[last.uid].serie_subcribe # <<>>

C10_AutoProvision ==
    (last.op = "get_current_profile" /\ last.invoked) =>
        /\ last.status \in {200, 201}
        /\ last.sub \in DOMAIN users
        /\ last.data = <<users[last.sub]>>
        /\ last.status = 201 =>
              /\ users[last.sub].role = "student"
              /\ users[last.sub].serie_subscribe = <<>>
              /\ users[last.sub].email = last.call.hdr.tok.email
        /\ Has(last.again) => last.status = 200

\* the checks the decorator is documented to make on a bearer token
KeyFound(call) ==
    /\ call.jwks /\ call.hdr.kind = "bearer"
    /\ call.hdr.tok.wellformed /\ call.hdr.tok.kid \in JwksKids

WellSigned(call) ==
    /\ KeyFound(call)
    /\ call.hdr.tok.sig /\ ~call.hdr.tok.expired /\ call.hdr.tok.iss_ok

\* C5: an access token (no aud claim) with a valid signature, issuer and
\* expiry is rejected as an invalid audience when its client_id differs from
\* the configured client id, and accepted when it equals it.
C5_AccessTokenClientId ==
    (/\ last.op # "none" /\ WellSigned(last.call)
     /\ last.call.hdr.tok.token_use = "access" /\ last.call.hdr.tok.aud = None
     /\ last.call.hdr.tok.sub # None /\ last.call.hdr.tok.client_id # None) =>
        IF last.call.hdr.tok.client_id = APP_CLIENT_ID
        THEN last.invoked
        ELSE ~last.invoked /\ last.status = 401
             /\ last.message = "Invalid claims: Invalid audience"

\* C6: the handler runs only after a successful verification that filled the
\* identity context; every failure is answered 401 without running the handler
\* or touching the collection; a missing or non-Bearer header is answered
\* "Token is missing".
C6_HandlerOnlyWhenVerified ==
    [][(nreq' = nreq + 1) =>
          /\ last'.invoked =>
                /\ WellSigned(last'.call)
                /\ last'.call.hdr.tok.aud # OtherClient
                /\ Has(last'.g)
                /\ last'.g[1].user_sub = last'.call.hdr.tok.sub
                /\ last'.g[1].user_sub # None
                /\ last'.g[1].user_email = last'.call.hdr.tok.email
                /\ last'.g[1].user_name \in {last'.call.hdr.tok.name,
                                             last'.call.hdr.tok.cognito_username}
                /\ last'.g[1].user_role \in Roles
          /\ (~WellSigned(last'.call) \/ last'.call.hdr.tok.aud = OtherClient) =>
                ~last'.invoked
          /\ ~last'.invoked => last'.status = 401 /\ users' = users
          /\ last'.call.hdr.kind # "bearer" =>
                ~last'.invoked /\ last'.message = "Token is missing"]_vars

C6_Witness ==
    /\ last.op = "get_current_profile" /\ ~last.invoked /\ last.status = 401
    /\ last.call.hdr.kind = "bearer" /\ last.call.hdr.tok.expired
    /\ last.call.hdr.tok.sub \in UserIds \ DOMAIN users

\* the atomic steps of the given requests applied one after another
RECURSIVE ApplyInOrder(_, _)
ApplyInOrder(arr, steps) ==
    IF steps = <<>> THEN arr
    ELSE ApplyInOrder(IF Head(steps).op = "add" THEN AddToSet(arr, Head(steps).sid)
                      ELSE Pull(arr, Head(steps).sid),
                      Tail(steps))

Orders(S) == {o \in [1..Cardinality(S) -> S] : \A i, j \in DOMAIN o : o[i] = o[j] => i = j}

AllDone == \A p \in 1..NConc : reqs.run[p].pc = "done"

Wrote(p) == reqs.run[p].status = 200

\* C2: when concurrent add / remove requests on one user have all finished, the
\* array is the result of the successful requests' atomic steps in some serial
\* order; an id added by a successful request that no request removes is in
\* it, and an id removed that no request adds is not.
C2_NoLostUpdate ==
    AllDone =>
        LET final == users[ConcUser].serie_subcribe
            done  == {p \in 1..NConc : Wrote(p)}
        IN  /\ \E o \in Orders(done) :
                  final = ApplyInOrder(reqs.base[ConcUser].serie_subcribe,
                                       [i \in DOMAIN o |-> reqs.run[o[i]]])
            /\ \A s \in SerieIds :
                  /\ ((\E p \in done : reqs.run[p].op = "add" /\ reqs.run[p].sid = s)
                      /\ ~\E q \in 1..NConc : reqs.run[q].op = "remove" /\ reqs.run[q].sid = s)
                        => s \in Range(final)
                  /\ ((\E p \in done : reqs.run[p].op = "remove" /\ reqs.run[p].sid = s)
                      /\ ~\E q \in 1..NConc : reqs.run[q].op = "add" /\ reqs.run[q].sid = s)
                        => s \notin Range(final)

C2_Witness ==
    /\ reqs # <<>> /\ AllDone
    /\ \E p, q \in 1..NConc :
          /\ reqs.run[p].op = "add" /\ Wrote(p)
          /\ reqs.run[q].op = "remove" /\ Wrote(q)
          /\ reqs.run[p].sid # reqs.run[q].sid
          /\ reqs.run[q].sid \in Range(reqs.base[ConcUser].serie_subcribe)
          /\ reqs.run[p].sid \in Range(users[ConcUser].serie_subcribe)
          /\ reqs.run[q].sid \notin Range(users[ConcUser].serie_subcribe)

\* C4: responses cached by cached_with_user are keyed per authenticated
\* subject: a body answered from the cache was stored while serving the same
\* subject, never another one.
C4_CacheKeyedPerUser ==
    (last.op = "get_subscribed" /\ last.invoked /\ last.hit /\ last.status = 200) =>
        last.data[1].user_id = last.sub

\* C11: POST /profile answers 400 without a userId and 409 when a record with
\* that userId exists, both leaving the collection as it was; otherwise it
\* inserts the record under that id and answers 201 with it.  The repository's
\* create, given the id of an existing record, is an update of that record.
C11_CreateProfileContract ==
    [][(Answers("create_profile") /\ last'.invoked) =>
          LET user_id == Get(last'.body.userId, None) IN
          /\ ~Truthy(user_id) => last'.status = 400 /\ users' = users
          /\ (Truthy(user_id) /\ user_id \in DOMAIN users) =>
                last'.status = 409 /\ users' = users
          /\ (Truthy(user_id) /\ user_id \notin DOMAIN users) =>
                /\ last'.status = 201
                /\ DOMAIN users' = DOMAIN users \cup {user_id}
                /\ \A u \in DOMAIN users : users'[u] = users[u]
                /\ last'.data = <<users'[user_id]>>
          /\ \A u \in DOMAIN users :
                repo_create(users, [last'.body EXCEPT !.userId = <<u>>], now)
                    = repo_update(users, u, [last'.body EXCEPT !.userId = <<u>>], now)]_vars

\* C12: a record, once stored, stays stored under its identity key and keeps
\* its createdAt through every later request, whatever the body carries.
C12_IdentityAndCreatedAtFixed ==
    [][/\ DOMAIN users \subseteq DOMAIN users'
       /\ \A u \in DOMAIN users : users'[u].createdAt = users[u].createdAt]_vars

C12_Witness ==
    /\ last.op = "update_user_profile" /\ last.status = 200
    /\ Has(last.body.createdAt) /\ Has(last.body.userId)
    /\ last.body.userId[1] # last.uid
    /\ last.body.createdAt[1] # users[last.uid].createdAt
    /\ now > 0 /\ users[last.uid].updatedAt = now

\* C13: a request that creates or changes a record leaves that record's
\* updatedAt at the time of the request, also when the body carries an
\* updatedAt of its own; a successful write stamps its target even when nothing
\* else changes; no record's updatedAt ever decreases.
Writers == {"update_user_profile", "add_subscription", "remove_subscription"}

C13_UpdatedAtRefreshed ==
    [][/\ DOMAIN users \subseteq DOMAIN users'
       /\ \A u \in DOMAIN users' :
             (u \notin DOMAIN users \/ users'[u] # users[u]) => users'[u].updatedAt = now
       /\ \A u \in DOMAIN users : users'[u].updatedAt >= users[u].updatedAt
       /\ (nreq' = nreq + 1 /\ last'.op \in Writers /\ last'.status = 200) =>
             users'[last'.uid].updatedAt = now
       /\ (nreq' = nreq + 1 /\ (last'.status = 201 \/ Answers("sync_user"))
             /\ last'.status \in {200, 201}) =>
             last'.data[1].updatedAt = now]_vars

C13_Witness ==
    /\ last.op = "update_user_profile" /\ last.status = 200
    /\ Has(last.body.updatedAt) /\ last.body.updatedAt[1] # now
    /\ now > 0 /\ users[last.uid].updatedAt = now

C15_SyncTouchesOnly ==
    [][(Answers("sync_user") /\ last'.invoked) =>
          LET sub == last'.g[1].user_sub
              email == last'.g[1].user_email
              M == IF sub \in DOMAIN users THEN {sub}
                   ELSE {u \in DOMAIN users : users[u].email = email}
          IN  /\ (~Truthy(sub) \/ ~Truthy(email)) =>
                    /\ last'.status = 400
                    /\ last'.message = "Missing required user info"
                    /\ last'.data = <<>>
                    /\ users' = users
              /\ (Truthy(sub) /\ Truthy(email) /\ M # {}) =>
                    /\ last'.status = 200
                    /\ \E m \in M :
                          /\ users' = [users EXCEPT ![m].lastLogin = now,
                                                    ![m].updatedAt = now]
                          /\ last'.data = <<users'[m]>>]_vars

C15_Witness ==
    /\ last.op = "sync_user" /\ last.status = 200 /\ now > 0
    /\ Has(last.body.avatar) /\ Has(last.body.name)
    /\ last.sub \notin DOMAIN users
    /\ \E m \in DOMAIN users :
          /\ users[m].email = last.g[1].user_email
          /\ users[m].lastLogin = now /\ users[m].createdAt < now
          /\ users[m].avatar # last.body.avatar[1]
          /\ users[m].name # last.body.name[1]

\* C16: a bearer token whose kid names no key of the provider's key set is
\* answered 401 and the handler does not run; a token whose key is found and
\* whose signature verifies but which has expired is answered 401 "Token
\* expired", whatever else is wrong with its claims.
C16_UnknownKidAndExpired ==
    (last.op # "none" /\ last.call.hdr.kind = "bearer" /\ last.call.hdr.tok.wellformed) =>
        /\ (last.call.hdr.tok.kid # None /\ last.call.hdr.tok.kid \notin JwksKids) =>
              ~last.invoked /\ last.status = 401 /\ last.data = <<>>
        /\ (KeyFound(last.call) /\ last.call.hdr.tok.sig /\ last.call.hdr.tok.expired) =>
              ~last.invoked /\ last.status = 401 /\ last.message = "Token expired"

C16_Witness ==
    /\ last.op = "verify_jwt" /\ KeyFound(last.call) /\ last.call.hdr.tok.sig
    /\ last.call.hdr.tok.expired /\ last.call.hdr.tok.aud = OtherClient
    /\ last.status = 401 /\ last.message = "Token expired"

\* C17: a token with a good signature, issuer and expiry whose token_use claim
\* is present and is neither id nor access is rejected: the handler does not
\* run.
C17_TokenUseChecked ==
    (/\ last.op # "none" /\ WellSigned(last.call)
     /\ last.call.hdr.tok.token_use \notin {"id", "access", None}) =>
        ~last.invoked /\ last.status = 401

\* the handler returned a 200 Response whose JSON body parses
JsonOk(out) == out.status = 200 /\ out.response /\ out.json

C19_OnlyGetJson200Stored ==
    [][(nreq' = nreq + 1 /\ last'.op \in {"list_items", "get_subscribed"} /\ last'.invoked) =>
          LET h == last'.http[1] IN
          /\ h.method # "GET" =>
                cache' = cache /\ ~last'.hit /\ last'.status = h.out.status
          /\ cache' # cache => h.method = "GET" /\ ~last'.hit /\ JsonOk(h.out)
          /\ (h.method = "GET" /\ ~last'.hit /\ ~JsonOk(h.out)) =>
                cache' = cache /\ last'.status = h.out.status]_vars

\* C20: invalidate_series_cache(X) with the store reachable leaves no public
\* list key, no public detail key of serie X and no user-scoped lessons key
\* of serie X, and keeps every public detail key of another serie, with its
\* value.
C20_InvalidateSeriesExact ==
    [][(Answers("invalidate_series_cache") /\ last'.invoked /\ Truthy(last'.sid)) =>
          LET X == last'.sid IN
          /\ \A k \in DOMAIN cache' :
                /\ ~(k.scope = <<"public">> /\ k.path = ListPath)
                /\ ~(k.scope = <<"public">> /\ k.path = DetailPath(X))
                /\ ~(k.scope[1] = "user" /\ k.path = LessonsPath(X))
          /\ \A k \in DOMAIN cache :
                (/\ Has(cache[k]) /\ k.scope = <<"public">>
                 /\ k.path \in {DetailPath(Y) : Y \in SerieIds \ {X}}) =>
                    k \in DOMAIN cache' /\ cache'[k] = cache[k]]_vars

\* C21: when the call to the Media service times out, fails in transport or
\* is answered with a non-2xx status, each client operation returns its
\* failure value: None for the three single uploads, the empty list for the
\* batch upload, False for delete_file and health_check, and for
\* delete_files_batch no deleted URL and every input URL as failed.
C21_ClientSentinels ==
    (Has(last.client) /\ last.client[1].outcome.kind # "ok") =>
        LET c == last.client[1] IN
        CASE last.op \in {"upload_thumbnail", "upload_video", "upload_document"} ->
                c.result = None
          [] last.op = "upload_documents_batch" -> c.result = <<>>
          [] last.op \in {"delete_file", "health_check"} -> c.result = FALSE
          [] last.op = "delete_files_batch" ->
                c.result = [deleted |-> <<>>, failed |-> c.urls]

C21_Witness ==
    /\ last.op = "delete_files_batch" /\ Has(last.client)
    /\ last.client[1].outcome.kind = "timeout"
    /\ Len(last.client[1].urls) = 2
    /\ last.client[1].result.failed = last.client[1].urls
    /\ last.client[1].result.deleted = <<>>

\* C22: GET /<user_id>/subscriptions answers 404 when the user has no
\* record, and otherwise 200 with every serie id the record holds under
\* serie_subcribe or under serie_subscribe.
C22_SubscriptionsBothSpellings ==
    (last.op = "get_user_subscriptions" /\ last.invoked) =>
        IF last.uid \notin DOMAIN users THEN last.status = 404
        ELSE /\ last.status = 200
             /\ (Range(users[last.uid].serie_subcribe)
                    \cup Range(users[last.uid].serie_subscribe))
                  \subseteq Range(last.data[1].subscriptions)

\* C23: when two concurrent GET /profile requests of one subject that had no
\* record have both ended, the subject has a record and neither request was
\* answered 500.
C23_ConcurrentProvisioning ==
    \A p, q \in 1..NProv :
        (/\ p # q
         /\ reqs.run[p].tok = reqs.run[q].tok
         /\ reqs.run[p].tok.sub \notin DOMAIN reqs.base
         /\ reqs.run[p].pc = "done" /\ reqs.run[q].pc = "done")
        => /\ reqs.run[p].tok.sub \in DOMAIN users
           /\ reqs.run[p].status # 500
           /\ reqs.run[q].status # 500

\* C24: after update_user with an avatar file, whatever the Media service
\* answered to the delete and to the upload, a non-empty avatar URL stored in
\* the updated record does not name a file that the Media service has deleted
\* for this service.
C24_AvatarNeverNamesDeleted ==
    (/\ last.op = "update_user_profile" /\ last.invoked /\ Has(last.upload)
     /\ last.upload[1].file # "" /\ last.uid \in DOMAIN users
     /\ Truthy(users[last.uid].avatar))
    => users[last.uid].avatar \notin media

\* C25: after POST /sync by subject S is answered 200, the store holds a
\* record whose _id is S and the answer carries that record.
C25_SyncReturnsSubjectRecord ==
    (last.op = "sync_user" /\ last.invoked /\ last.status = 200) =>
        /\ last.sub \in DOMAIN users
        /\ last.data = <<users[last.sub]>>

\* C26: PUT /<user_id> and POST /profile issued by an authenticated subject A
\* neither create nor change a record whose _id is another subject B.
C26_WritesOnlyOwnRecord ==
    [][(/\ nreq' = nreq + 1
        /\ last'.op \in {"update_user_profile", "create_profile"}
        /\ last'.invoked) =>
          \A B \in DOMAIN users' \ {last'.sub} :
              B \in DOMAIN users /\ users'[B] = users[B]]_vars

\* C27: POST /profile with a userId that has no record and a body without
\* email is answered 400 and leaves the store as it was.
C27_MissingEmailIsValidationError ==
    [][(/\ Answers("create_profile") /\ last'.invoked
        /\ Truthy(Get(last'.body.userId, None))
        /\ Get(last'.body.userId, None) \notin DOMAIN users
        /\ ~Has(last'.body.email)) =>
          /\ last'.status = 400
          /\ users' = users]_vars

====
